---- MODULE Spec2Model ----
(***************************************************************************)
(* Model of Task_3.js: a two-party non-transitive dice game whose random   *)
(* outcomes are produced by an HMAC commit-reveal exchange.                *)
(*                                                                         *)
(* Strings are sequences of one-character strings, so that split, trim,    *)
(* Number, parseInt and toString are modelled by what they do.  A number   *)
(* Number() returns is kept in units of 1/Scale, so that a fractional face *)
(* such as 1.5 is a value different from 1 and from 2.                     *)
(* A Dice object is identified by its position in diceSet (its identity),  *)
(* never by its face values.                                               *)
(***************************************************************************)
EXTENDS Integers, Sequences, FiniteSets, TLC

(***************************************************************************)
(* Bounds of the model.                                                    *)
(***************************************************************************)
\* number of distinct 256-bit keys crypto.randomBytes may return
NumKeys == 2
\* most faces of a die the probability engine is run on by itself
MaxFaces == 2
\* largest face value of such a die
MaxFace == 2
\* fractional decimal digits kept by the fixed-point numbers
FracDigits == 1

(***************************************************************************)
(* Characters and strings.                                                 *)
(***************************************************************************)
DigitChars == <<"0", "1", "2", "3", "4", "5", "6", "7", "8", "9">>

Digits == {DigitChars[i] : i \in 1..10}

DigitVal(c) == (CHOOSE i \in 1..10 : DigitChars[i] = c) - 1

IsDigits(s) == \A i \in 1..Len(s) : s[i] \in Digits

RECURSIVE Pow10(_)
Pow10(k) == IF k = 0 THEN 1 ELSE 10 * Pow10(k - 1)

Scale == Pow10(FracDigits)

\* value of a string of decimal digits (0 for the empty string)
RECURSIVE DigitsValue(_)
DigitsValue(s) ==
    IF s = <<>> THEN 0
    ELSE 10 * DigitsValue(SubSeq(s, 1, Len(s) - 1)) + DigitVal(s[Len(s)])

\* String.prototype.trim on a line whose only white space is " "
RECURSIVE Trim(_)
Trim(s) ==
    IF s = <<>> THEN s
    ELSE IF Head(s) = " " THEN Trim(Tail(s))
    ELSE IF s[Len(s)] = " " THEN Trim(SubSeq(s, 1, Len(s) - 1))
    ELSE s

\* arg.split(','): the tokens between the commas, "" gives one empty token
RECURSIVE Split(_)
Split(s) ==
    IF \A i \in 1..Len(s) : s[i] # ","
    THEN <<s>>
    ELSE LET p == CHOOSE i \in 1..Len(s) :
                      s[i] = "," /\ \A j \in 1..(i - 1) : s[j] # ","
         IN  <<SubSeq(s, 1, p - 1)>> \o Split(SubSeq(s, p + 1, Len(s)))

\* A JavaScript number as Number() returns it: nan marks NaN, otherwise v is
\* the value in units of 1/Scale.
NaN == [nan |-> TRUE, v |-> 0]

Num(x) == [nan |-> FALSE, v |-> x]

IsNaN(n) == n.nan

\* Number(token) for tokens over digits, ".", "x" and " ": white space is
\* stripped, the empty string is 0, a decimal literal with at least one
\* digit and at most one "." is its value, anything else is NaN.
ToNumber(token) ==
    LET t    == Trim(token)
        dots == {i \in 1..Len(t) : t[i] = "."}
    IN  IF t = <<>> THEN Num(0)
        ELSE IF \E i \in 1..Len(t) : t[i] \notin (Digits \cup {"."}) THEN NaN
        ELSE IF Cardinality(dots) > 1 THEN NaN
        ELSE IF Cardinality(dots) = Len(t) THEN NaN
        ELSE IF dots = {} THEN Num(DigitsValue(t) * Scale)
        ELSE LET p    == CHOOSE i \in dots : TRUE
                 ip   == SubSeq(t, 1, p - 1)
                 fp   == SubSeq(t, p + 1, Len(t))
                 kept == SubSeq(fp, 1, IF Len(fp) < FracDigits THEN Len(fp) ELSE FracDigits)
             IN  Num(DigitsValue(ip) * Scale
                       + DigitsValue(kept) * Pow10(FracDigits - Len(kept)))

\* parseInt(s) on a string the caller has matched against /^\d+$/ or
\* compared with "0" and "1"
ParseInt(s) == DigitsValue(s)

\* /^\d+$/.test(s)
IsDigitString(s) == Len(s) >= 1 /\ IsDigits(s)

\* number.toString() of a non-negative integer
RECURSIVE DecimalString(_)
DecimalString(n) ==
    IF n < 10 THEN <<DigitChars[n + 1]>>
    ELSE DecimalString(n \div 10) \o <<DigitChars[(n % 10) + 1]>>

(***************************************************************************)
(* Dice, Parser, FairRandom, Probability.                                  *)
(***************************************************************************)
\* arg.split(',').map(Number)
ParseValues(arg) == LET toks == Split(arg) IN [i \in 1..Len(toks) |-> ToNumber(toks[i])]

\* values.some(isNaN)
SomeNaN(values) == \E i \in 1..Len(values) : IsNaN(values[i])

\* new Dice(values): the face values of the die
Dice(values) == [i \in 1..Len(values) |-> values[i].v]

\* Dice.roll(index), index counted from 0
Roll(die, index) == die[index + 1]

\* mutant of TooFew: the comparison off by one
TooFewOffByOne(args) == Len(args) < 2

\* args.length < 3
TooFew(args) == Len(args) < 3

\* Parser.parseArgs(args): the dice, or the error thrown
ParseArgs(args) ==
    IF TooFew(args)
    THEN [ok |-> FALSE, error |-> "few", arg |-> 0, dice |-> <<>>]
    ELSE LET bad == {i \in 1..Len(args) : SomeNaN(ParseValues(args[i]))}
         IN  IF bad # {}
             THEN [ok |-> FALSE, error |-> "values",
                   arg |-> CHOOSE i \in bad : \A j \in bad : i <= j, dice |-> <<>>]
             ELSE [ok |-> TRUE, error |-> "", arg |-> 0,
                   dice |-> [i \in 1..Len(args) |-> Dice(ParseValues(args[i]))]]

Keys == 1..NumKeys

\* crypto.createHmac('sha3-256', key).update(message).digest('hex'), taken
\* as an injective function of the key and the message
HMAC(key, message) == <<key, message>>

\* mutant of GenerateRandom: the upper end of the draw is included
GenerateRandomInclusive(range) ==
    {[number |-> n, key |-> k, hmac |-> HMAC(k, DecimalString(n))] :
        n \in 0..range, k \in Keys}

\* FairRandom.generateRandom(range): every result the two draws can give
GenerateRandom(range) ==
    {[number |-> n, key |-> k, hmac |-> HMAC(k, DecimalString(n))] :
        n \in 0..(range - 1), k \in Keys}

\* mutant of Wins: the comparison the wrong way round
WinsWhenLess(u, c) == u < c

\* mutant of Wins: a tie counts as a win
WinsOrTies(u, c) == u >= c

\* if (u > c) winCount++
Wins(u, c) == u > c

\* Probability.countWins: the nested forEach loops, one face at a time
RECURSIVE CountRow(_, _)
CountRow(u, cs) ==
    IF cs = <<>> THEN 0
    ELSE (IF Wins(u, Head(cs)) THEN 1 ELSE 0) + CountRow(u, Tail(cs))

RECURSIVE CountWins(_, _)
CountWins(userValues, compValues) ==
    IF userValues = <<>> THEN 0
    ELSE CountRow(Head(userValues), compValues) + CountWins(Tail(userValues), compValues)

\* Probability.winProbability: winCount / totalComparisons as a fraction
WinProbability(userValues, compValues) ==
    [num |-> CountWins(userValues, compValues),
     den |-> Len(userValues) * Len(compValues)]

(***************************************************************************)
(* Command lines and answer lines the model runs the program on.           *)
(***************************************************************************)
\* argv.slice(2): each argument is one string
ArgvPool ==
    { <<>>,
      << <<"1", ",", "2">>, <<"3">> >>,
      << <<"1", ",", "2", ",", "3", ",", "4", ",", "5", ",", "6">>, <<"3">>, <<"3">> >>,
      << <<"1", ",", "2">>, <<"2">>, <<"3">>, <<"0">> >>,
      << <<"1">>, <<"2">>, <<"3">>, <<"4">>, <<"5">> >>,
      << <<"1", ".", "5">>, <<"2">>, <<"3">> >>,
      << <<>>, <<"1", ",">>, <<"2">> >>,
      << <<"1">>, <<"x", ",", "1">>, <<"2", ",", "x">> >>,
      << <<"1">>, <<"2">>, <<"1", ".", "2", ".", "3">> >> }

\* the raw lines readline hands to the question callback: empty, valid
\* digits, padded with blanks, with a leading zero, too large, not numeric
Lines ==
    { <<>>, <<"0">>, <<"1">>, <<"2">>, <<"4">>, <<"6">>, <<"x">>,
      <<"0", "1">>, <<"1", "0">>, <<" ", "1">>, <<"0", " ">>, <<"1", "x">>, <<" ">> }

\* Game.askQuestion resolves with answer.trim()
Answers == {Trim(line) : line \in Lines}

(***************************************************************************)
(* State.                                                                  *)
(***************************************************************************)
Rounds == {"order", "userRoll", "compRoll"}

RollRounds == {"userRoll", "compRoll"}

VARIABLES
    argv,           \* process.argv.slice(2)
    pc,             \* where the program is: entry, aborted, start, guess, choose, roll, done
    error,          \* the Error the entry point caught
    diceSet,        \* Game.diceSet: the Dice objects, a die's identity is its position
    compChoice,     \* Game.start: the turn-order commitment
    userGuess,      \* Game.start: the last answer to "Guess my value"
    userFirst,      \* Game.start: whether the user picks first
    choice,         \* Game.chooseDice: the last answer to "Your selection"
    availableDice,  \* Game.selectDice: identities of the dice still on offer
    userDie,        \* Game.selectDice: identity of the user's die, 0 before it is chosen
    compDie,        \* Game.selectDice: identity of the computer's die, 0 before it is chosen
    probability,    \* Game.selectDice: the reported win probability
    round,          \* the commitment round in progress
    rollProcess,    \* Game.fairRoll: the commitment of each roll
    userNumber,     \* Game.fairRoll: the last answer to "Add your number" of each roll
    resultIndex,    \* Game.fairRoll: the face index of each roll
    userRoll,       \* Game.playRound: the user's face value, -1 before the roll
    compRoll,       \* Game.playRound: the computer's face value, -1 before the roll
    shown,          \* console: the commitment fields printed so far, per round
    console,        \* console: the other lines printed so far
    trace           \* the statements executed so far, in program order; those of a
                    \* retry loop (the "Invalid ..." line and the repeated question)
                    \* are left out

vars == <<argv, pc, error, diceSet, compChoice, userGuess, userFirst, choice,
          availableDice, userDie, compDie, probability, round, rollProcess, userNumber,
          resultIndex, userRoll, compRoll, shown, console, trace>>

\* a commitment variable before generateRandom has run
NoCommit == [number |-> -1, key |-> 0, hmac |-> <<>>]

NothingShown == [hmac |-> {}, key |-> {}, number |-> {}]

\* a local the program has declared and not yet assigned
Undefined == <<"undefined">>

NoError == [error |-> "", arg |-> 0]

Init ==
    /\ argv \in ArgvPool
    /\ pc = "entry"
    /\ error = NoError
    /\ diceSet = <<>>
    /\ compChoice = NoCommit
    /\ userGuess = Undefined
    /\ userFirst = FALSE
    /\ choice = Undefined
    /\ availableDice = <<>>
    /\ userDie = 0
    /\ compDie = 0
    /\ probability = [num |-> 0, den |-> 0]
    /\ round = "none"
    /\ rollProcess = [r \in RollRounds |-> NoCommit]
    /\ userNumber = [r \in RollRounds |-> Undefined]
    /\ resultIndex = [r \in RollRounds |-> -1]
    /\ userRoll = -1
    /\ compRoll = -1
    /\ shown = [r \in Rounds |-> NothingShown]
    /\ console = {}
    /\ trace = <<>>

(***************************************************************************)
(* The steps of the program between two awaits.                            *)
(***************************************************************************)
\* mutant of PublishAtCommit: the key is printed together with the digest
PublishKeyAtCommit(c) == [hmac |-> {c.hmac}, key |-> {c.key}, number |-> {}]

\* console.log(`... (HMAC=${c.hmac})`): what a round prints when it commits
PublishAtCommit(c) == [hmac |-> {c.hmac}, key |-> {}, number |-> {}]

\* Game.start: "Actual number was" and "HMAC key" after the guess
RevealOrder(c, sh) == [sh EXCEPT !.number = {c.number}, !.key = {c.key}]

\* mutant of RevealRoll: the key of the turn-order commitment is printed
RevealStaleKey(c, sh) == [sh EXCEPT !.key = {compChoice.key}]

\* mutant of RevealRoll: the key of a roll is never printed
RevealRollWithheld(c, sh) == sh

\* Game.fairRoll: "HMAC key" after the number
RevealRoll(c, sh) == [sh EXCEPT !.key = {c.key}]

\* mutant of GuessOk: any string of digits is taken as a guess
GuessOkAnyDigits(a) == IsDigitString(a)

\* userGuess === "0" || userGuess === "1"
GuessOk(a) == a = <<"0">> \/ a = <<"1">>

\* /^\d+$/.test(choice) && availableDice[parseInt(choice)]
ChooseOk(a, avail) == IsDigitString(a) /\ (ParseInt(a) + 1) \in DOMAIN avail

\* mutant of RollOk: the last face position is refused
RollOkStrict(a, die) == IsDigitString(a) /\ ParseInt(a) < Len(die) - 1

\* /^\d+$/.test(userNumber) && parseInt(userNumber) < die.values.length
RollOk(a, die) == IsDigitString(a) /\ ParseInt(a) < Len(die)

\* mutant of FilterOut: the chosen die stays on offer
KeepAll(avail, die) == avail

\* availableDice.filter(d => d !== die)
FilterOut(avail, die) == SelectSeq(avail, LAMBDA d : d # die)

\* mutant of ResultIndex: the two numbers are multiplied
ResultIndexProduct(a, number, len) == (ParseInt(a) * number) % len

\* mutant of ResultIndex: the secret number is left out of the sum
ResultIndexPeerOnly(a, number, len) == ParseInt(a) % len

\* (parseInt(userNumber) + rollProcess.number) % die.values.length
ResultIndex(a, number, len) == (ParseInt(a) + number) % len

\* mutant of UserWins: a tie counts as a win of the user
UserWinsOrTies(u, c) == u >= c

\* userRoll > compRoll ? "You win!" : "I win!"
UserWins(u, c) == u > c

\* mutant of UserFirst: the user picks first on a wrong guess
UserFirstOnMiss(a, number) == ParseInt(a) # number

\* parseInt(userGuess) === compChoice.number
UserFirst(a, number) == ParseInt(a) = number

\* A statement of the trace: what it does, and the round it belongs to.
Ev(kind, r) == <<kind, r>>

\* the entry point, in order: parseArgs, then new Game or the catch block
EntryTrace(ok) ==
    IF ok THEN <<Ev("parseArgs", ""), Ev("new Game", "")>>
    ELSE <<Ev("parseArgs", ""), Ev("Error", ""), Ev("Usage", "")>>

\* mutant of CommitTrace: the question is asked before the digest is printed
CommitTraceAskFirst(r) == <<Ev("commit", r), Ev("ask", r), Ev("digest", r)>>

\* generateRandom, the HMAC line, the question: lines 70-75 and 141-146
CommitTrace(r) == <<Ev("commit", r), Ev("digest", r), Ev("ask", r)>>

\* Game.start after the loop, in order: lines 76-85
OrderRevealTrace(first) ==
    <<Ev("accept", "order"), Ev("You chose", ""), Ev("number", "order"), Ev("key", "order"),
      Ev("decide", "order"), Ev(IF first THEN "You pick first!" ELSE "I pick first.", "")>>

\* mutant of RollRevealTrace: the key is printed before the index is computed
RollRevealTraceKeyFirst(r) ==
    <<Ev("accept", r), Ev("key", r), Ev("combine", r), Ev("resolve", r)>>

\* Game.fairRoll after the loop, in order: lines 147-153
RollRevealTrace(r) ==
    <<Ev("accept", r), Ev("combine", r), Ev("key", r), Ev("resolve", r)>>

\* the computer's draw in Game.selectDice: lines 100-102
CompPickTrace == <<Ev("compDie", "select"), Ev("I choose", "")>>

\* mutant of AfterSelectionTrace: the probability is computed after the
\* first roll has committed
ProbabilityAfterCommit ==
    <<Ev("Time to roll!", "")>> \o CommitTrace("userRoll")
        \o <<Ev("winProbability", ""), Ev("Win probability", "")>>

\* Game.selectDice from line 109 and Game.playRound up to the first question
AfterSelectionTrace ==
    <<Ev("winProbability", ""), Ev("Win probability", ""), Ev("Time to roll!", "")>>
        \o CommitTrace("userRoll")

\* mutant of ResultTrace: readline is closed before the result is printed
ResultTraceCloseFirst(win) ==
    <<Ev("close", ""), Ev("Your roll", ""), Ev(IF win THEN "You win!" ELSE "I win!", "")>>

\* Game.playRound after the second fairRoll: lines 135-137
ResultTrace(win) ==
    <<Ev("Your roll", ""), Ev(IF win THEN "You win!" ELSE "I win!", ""), Ev("close", "")>>

\* the entry point: parseArgs, then either the catch block or new Game
EntryPoint ==
    /\ pc = "entry"
    /\ LET res == ParseArgs(argv)
       IN  IF res.ok
           THEN /\ diceSet' = res.dice
                /\ pc' = "start"
                /\ UNCHANGED <<error, console>>
           ELSE /\ error' = [error |-> res.error, arg |-> res.arg]
                /\ console' = console \cup {"Error", "Usage"}
                /\ pc' = "aborted"
                /\ UNCHANGED diceSet
    /\ trace' = trace \o EntryTrace(ParseArgs(argv).ok)
    /\ UNCHANGED <<argv, compChoice, userGuess, userFirst, choice, availableDice,
                   userDie, compDie, probability, round, rollProcess, userNumber,
                   resultIndex, userRoll, compRoll, shown>>

\* Game.start up to the first question
Start ==
    /\ pc = "start"
    /\ \E c \in GenerateRandom(2) :
         /\ compChoice' = c
         /\ shown' = [shown EXCEPT !["order"] = PublishAtCommit(c)]
    /\ round' = "order"
    /\ console' = console \cup {"Game started", "Guess my value"}
    /\ trace' = trace \o <<Ev("Game started", "")>> \o CommitTrace("order")
    /\ pc' = "guess"
    /\ UNCHANGED <<argv, error, diceSet, userGuess, userFirst, choice, availableDice,
                   userDie, compDie, probability, rollProcess, userNumber, resultIndex,
                   userRoll, compRoll>>

\* Game.start: an answer the loop rejects
GuessReject ==
    /\ pc = "guess"
    /\ \E a \in Answers :
         /\ ~GuessOk(a)
         /\ userGuess' = a
    /\ UNCHANGED <<argv, pc, error, diceSet, compChoice, userFirst, choice,
                   availableDice, userDie, compDie, probability, round, rollProcess,
                   userNumber, resultIndex, userRoll, compRoll, shown, console, trace>>

\* Game.start from the accepted guess, and Game.selectDice up to the question
\* of chooseDice
GuessAccept ==
    /\ pc = "guess"
    /\ \E a \in Answers :
         LET first == UserFirst(a, compChoice.number)
             all   == [i \in 1..Len(diceSet) |-> i]
         IN  /\ GuessOk(a)
             /\ userGuess' = a
             /\ shown' = [shown EXCEPT !["order"] = RevealOrder(compChoice, @)]
             /\ userFirst' = first
             /\ trace' = trace \o OrderRevealTrace(first)
                            \o (IF first THEN <<>> ELSE CompPickTrace)
                            \o <<Ev("ask", "select")>>
             /\ IF first
                THEN /\ availableDice' = all
                     /\ compDie' = compDie
                     /\ console' = console \cup {"You chose", "You pick first!", "Your selection"}
                ELSE \E compChoiceIndex \in 0..(Len(all) - 1) :
                     /\ compDie' = all[compChoiceIndex + 1]
                     /\ availableDice' = FilterOut(all, all[compChoiceIndex + 1])
                     /\ console' = console \cup {"You chose", "I pick first.", "I choose",
                                                 "Your selection"}
    /\ pc' = "choose"
    /\ UNCHANGED <<argv, error, diceSet, compChoice, choice, userDie, probability, round,
                   rollProcess, userNumber, resultIndex, userRoll, compRoll>>

\* Game.chooseDice: an answer the loop rejects
ChooseReject ==
    /\ pc = "choose"
    /\ \E a \in Answers :
         /\ ~ChooseOk(a, availableDice)
         /\ choice' = a
    /\ UNCHANGED <<argv, pc, error, diceSet, compChoice, userGuess, userFirst,
                   availableDice, userDie, compDie, probability, round, rollProcess,
                   userNumber, resultIndex, userRoll, compRoll, shown, console, trace>>

\* Game.chooseDice from the accepted selection, the rest of Game.selectDice,
\* and Game.playRound up to the question of the first fairRoll
ChooseAccept ==
    /\ pc = "choose"
    /\ \E a \in Answers :
         LET chosen == availableDice[ParseInt(a) + 1]
             rest   == FilterOut(availableDice, chosen)
         IN  /\ ChooseOk(a, availableDice)
             /\ choice' = a
             /\ userDie' = chosen
             /\ IF userFirst
                THEN \E compChoiceIndex \in 0..(Len(rest) - 1) :
                     /\ availableDice' = rest
                     /\ compDie' = rest[compChoiceIndex + 1]
                ELSE UNCHANGED <<availableDice, compDie>>
    /\ probability' = WinProbability(diceSet[userDie'], diceSet[compDie'])
    /\ \E c \in GenerateRandom(Len(diceSet[userDie'])) :
         /\ rollProcess' = [rollProcess EXCEPT !["userRoll"] = c]
         /\ shown' = [shown EXCEPT !["userRoll"] = PublishAtCommit(c)]
    /\ round' = "userRoll"
    /\ trace' = trace \o <<Ev("accept", "select"), Ev("userDie", "select")>>
                   \o (IF userFirst THEN CompPickTrace ELSE <<>>)
                   \o AfterSelectionTrace
    /\ console' = console \cup {"I choose", "Win probability", "Time to roll!",
                                "Add your number"}
    /\ pc' = "roll"
    /\ UNCHANGED <<argv, error, diceSet, compChoice, userGuess, userFirst, userNumber,
                   resultIndex, userRoll, compRoll>>

\* the die Game.playRound hands to the fairRoll of a round
DieOf(r) == IF r = "userRoll" THEN diceSet[userDie] ELSE diceSet[compDie]

\* Game.fairRoll: an answer the loop rejects
RollReject ==
    /\ pc = "roll"
    /\ \E a \in Answers :
         /\ ~RollOk(a, DieOf(round))
         /\ userNumber' = [userNumber EXCEPT ![round] = a]
    /\ UNCHANGED <<argv, pc, error, diceSet, compChoice, userGuess, userFirst, choice,
                   availableDice, userDie, compDie, probability, round, rollProcess,
                   resultIndex, userRoll, compRoll, shown, console, trace>>

\* Game.fairRoll from the accepted number; then, after the user's roll,
\* Game.playRound up to the question of the second fairRoll, and after the
\* computer's roll the rest of Game.playRound
RollAccept ==
    /\ pc = "roll"
    /\ \E a \in Answers :
         LET die   == DieOf(round)
             idx   == ResultIndex(a, rollProcess[round].number, Len(die))
             value == Roll(die, idx)
         IN  /\ RollOk(a, die)
             /\ userNumber' = [userNumber EXCEPT ![round] = a]
             /\ resultIndex' = [resultIndex EXCEPT ![round] = idx]
             /\ IF round = "userRoll"
                THEN /\ userRoll' = value
                     /\ \E c \in GenerateRandom(Len(diceSet[compDie])) :
                          /\ rollProcess' = [rollProcess EXCEPT !["compRoll"] = c]
                          /\ shown' = [shown EXCEPT
                                         !["userRoll"] = RevealRoll(rollProcess["userRoll"], @),
                                         !["compRoll"] = PublishAtCommit(c)]
                     /\ round' = "compRoll"
                     /\ trace' = trace \o RollRevealTrace("userRoll") \o CommitTrace("compRoll")
                     /\ pc' = "roll"
                     /\ UNCHANGED <<compRoll, console>>
                ELSE /\ compRoll' = value
                     /\ shown' = [shown EXCEPT
                                    !["compRoll"] = RevealRoll(rollProcess["compRoll"], @)]
                     /\ console' = console \cup
                          {"Your roll", IF UserWins(userRoll, value) THEN "You win!" ELSE "I win!"}
                     /\ trace' = trace \o RollRevealTrace("compRoll")
                                    \o ResultTrace(UserWins(userRoll, value))
                     /\ pc' = "done"
                     /\ UNCHANGED <<userRoll, rollProcess, round>>
    /\ UNCHANGED <<argv, error, diceSet, compChoice, userGuess, userFirst, choice,
                   availableDice, userDie, compDie, probability>>

Next ==
    \/ EntryPoint
    \/ Start
    \/ GuessReject
    \/ GuessAccept
    \/ ChooseReject
    \/ ChooseAccept
    \/ RollReject
    \/ RollAccept

Spec == Init /\ [][Next]_vars

(***************************************************************************)
(* Vocabulary of the properties.                                           *)
(***************************************************************************)
\* the commitment of a round: compChoice, or the rollProcess of that roll
Commitment(r) == IF r = "order" THEN compChoice ELSE rollProcess[r]

\* the last answer of a round: userGuess, or the userNumber of that roll
Contribution(r) == IF r = "order" THEN userGuess ELSE userNumber[r]

\* the round's question is the one the program is waiting at
AtPrompt(r) ==
    \/ r = "order" /\ pc = "guess"
    \/ r \in RollRounds /\ pc = "roll" /\ round = r

\* the round's while loop has been left: its answer is the contribution
Accepted(r) ==
    IF r = "order" THEN pc \in {"choose", "roll", "done"} ELSE resultIndex[r] # -1

Numeric(a) == Len(a) >= 1 /\ \A i \in 1..Len(a) : a[i] \in Digits

ValidGuess(a) == a \in {<<"0">>, <<"1">>}

ValidIndex(a, avail) == Numeric(a) /\ DigitsValue(a) \in 0..(Len(avail) - 1)

ValidNumber(a, die) == Numeric(a) /\ DigitsValue(a) \in 0..(Len(die) - 1)

ValidContribution(r) ==
    IF r = "order" THEN ValidGuess(userGuess) ELSE ValidNumber(userNumber[r], DieOf(r))

Range(seq) == {seq[i] : i \in DOMAIN seq}

AllDice == 1..Len(diceSet)

Selected == pc \in {"roll", "done"}

Unassigned == AllDice \ {userDie, compDie}

\* an argument that is a comma-separated list of one or more integer literals
IntegerList(arg) ==
    /\ Len(arg) >= 1
    /\ \A i \in 1..Len(arg) : arg[i] \in Digits \cup {","}
    /\ arg[1] # ","
    /\ arg[Len(arg)] # ","
    /\ \A i \in 1..(Len(arg) - 1) : ~(arg[i] = "," /\ arg[i + 1] = ",")

PromptLines == {"Guess my value", "Your selection", "Add your number"}

ProtocolState ==
    <<pc, round, compChoice, rollProcess, diceSet, availableDice, userDie, compDie,
      userFirst, probability, resultIndex, userRoll, compRoll, shown, console>>

(***************************************************************************)
(* Properties.                                                             *)
(***************************************************************************)
\* C1: in every round, the key or the number of the round's commitment is on
\* the console only once the round's loop has been left with a valid guess
\* or roll number, whatever answers were rejected before.
C1_NoRevealBeforeContribution ==
    \A r \in Rounds :
        (shown[r].key # {} \/ shown[r].number # {}) => (Accepted(r) /\ ValidContribution(r))

\* C1 witness: the user's roll has been revealed after its number, and the
\* computer's roll, whose last answer was rejected, still hides its key.
C1_Witness ==
    /\ pc = "roll" /\ round = "compRoll"
    /\ shown["userRoll"].key = {rollProcess["userRoll"].key}
    /\ userNumber["compRoll"] # Undefined
    /\ shown["compRoll"].key = {}

\* C2: once the contribution of a round is accepted, both the key and the
\* number of the round's commitment are on the console, in the turn-order
\* round and in each roll round.
C2_KeyAndNumberRevealed ==
    \A r \in Rounds :
        Accepted(r) => /\ shown[r].key = {Commitment(r).key}
                       /\ shown[r].number = {Commitment(r).number}

\* C3: in every round the digest is on the console whenever the peer is
\* asked and ever after; a commitment, once generated, never changes; and
\* the key and number printed, and the number combined with the peer's
\* answer, are those of that commitment.
C3_CommitmentFixed ==
    /\ [](\A r \in Rounds :
            (AtPrompt(r) \/ Accepted(r)) =>
                /\ Commitment(r) # NoCommit
                /\ shown[r].hmac = {Commitment(r).hmac}
                /\ shown[r].key \subseteq {Commitment(r).key}
                /\ shown[r].number \subseteq {Commitment(r).number})
    /\ [](Accepted("order") => (userFirst <=> DigitsValue(userGuess) = compChoice.number))
    /\ [](\A r \in RollRounds :
            Accepted(r) =>
                resultIndex[r] =
                    (DigitsValue(userNumber[r]) + rollProcess[r].number) % Len(DieOf(r)))
    /\ [][/\ compChoice # NoCommit => compChoice' = compChoice
          /\ \A r \in RollRounds : rollProcess[r] # NoCommit => rollProcess'[r] = rollProcess[r]]_vars

\* C3 witness: the session is over and the three rounds have printed the
\* digest and the key of their own commitment.
C3_Witness ==
    /\ pc = "done"
    /\ \A r \in Rounds : /\ shown[r].hmac = {Commitment(r).hmac}
                         /\ shown[r].key = {Commitment(r).key}
    /\ rollProcess["userRoll"].key # compChoice.key

\* C4: in a roll round with range the face count of the die, the secret
\* number n and the accepted number p lie in [0, range), the face index is
\* n + p reduced modulo range and lies in [0, range), the face rolled is the
\* one at that index, and n = 3, p = 4, range = 6 give index 1.
C4_FaceIndex ==
    \A r \in RollRounds :
        Accepted(r) =>
            LET n     == rollProcess[r].number
                p     == DigitsValue(userNumber[r])
                range == Len(DieOf(r))
                idx   == resultIndex[r]
            IN  /\ n \in 0..(range - 1)
                /\ p \in 0..(range - 1)
                /\ idx \in 0..(range - 1)
                /\ \E q \in 0..1 : n + p = q * range + idx
                /\ (n = 3 /\ p = 4 /\ range = 6) => idx = 1
                /\ (IF r = "userRoll" THEN userRoll ELSE compRoll) = DieOf(r)[idx + 1]

\* C4 witness: the user's roll with secret number 3, answer 4 and a die of
\* six faces has resolved to index 1.
C4_Witness ==
    /\ Accepted("userRoll")
    /\ rollProcess["userRoll"].number = 3
    /\ userNumber["userRoll"] = <<"4">>
    /\ Len(DieOf("userRoll")) = 6
    /\ resultIndex["userRoll"] = 1

\* C5: a step in which the answer read at a prompt is not a valid guess, not
\* a valid index into the dice on offer, or not a valid roll number changes
\* nothing but the variable holding the answer; and at every prompt another
\* rejection is possible.
C5_RejectKeepsState ==
    /\ [][/\ (pc = "guess" /\ ~ValidGuess(userGuess')) => UNCHANGED ProtocolState
          /\ (pc = "choose" /\ ~ValidIndex(choice', availableDice)) => UNCHANGED ProtocolState
          /\ (pc = "roll" /\ ~ValidNumber(userNumber'[round], DieOf(round)))
                => UNCHANGED ProtocolState]_vars
    /\ [](pc \in {"guess", "choose", "roll"} =>
            ENABLED (GuessReject \/ ChooseReject \/ RollReject))

\* C5 witness: the program waits again at the computer's roll after an answer
\* that is no valid number for the die.
C5_Witness ==
    /\ pc = "roll" /\ round = "compRoll"
    /\ userNumber["compRoll"] # Undefined
    /\ ~ValidNumber(userNumber["compRoll"], DieOf("compRoll"))
    /\ resultIndex["compRoll"] = -1

\* C6: with fewer than 3 arguments the entry point ends in the catch block
\* with no commitment generated, nothing of a commitment printed and no
\* question asked; with 3 or more arguments that are lists of integers the
\* session starts.
C6_TooFewDiceAborts ==
    pc # "entry" =>
        IF Len(argv) < 3
        THEN /\ pc = "aborted"
             /\ error.error = "few"
             /\ \A r \in Rounds : Commitment(r) = NoCommit /\ shown[r] = NothingShown
             /\ console \cap PromptLines = {}
        ELSE (\A i \in 1..Len(argv) : IntegerList(argv[i])) => pc # "aborted"

\* C6 witness: a command line of two dice has been refused.
C6_Witness == pc = "aborted" /\ Len(argv) = 2 /\ "Usage" \in console

\* C7: a die argument that is empty or holds a token that is not an integer
\* (not numeric, fractional, empty) fails validation, so every die of a
\* started session is a non-empty sequence of integers.
C7_MalformedDieRejected ==
    pc # "entry" =>
        /\ (\E i \in 1..Len(argv) : ~IntegerList(argv[i])) => pc = "aborted"
        /\ pc # "aborted" =>
             \A d \in AllDice :
                 /\ Len(diceSet[d]) >= 1
                 /\ \A f \in 1..Len(diceSet[d]) : diceSet[d][f] % Scale = 0

\* C8: after the selection each party holds one die of the set and the two
\* are different objects, also when their faces are equal; whoever chooses
\* second is offered exactly the dice other than the first chooser's.
C8_DistinctDice ==
    /\ Selected => /\ userDie \in AllDice
                   /\ compDie \in AllDice
                   /\ userDie # compDie
    /\ (pc = "choose" /\ userFirst) => compDie = 0 /\ Range(availableDice) = AllDice
    /\ (pc = "choose" /\ ~userFirst) =>
          compDie \in AllDice /\ Range(availableDice) = AllDice \ {compDie}
    /\ (Selected /\ userFirst) =>
          compDie \in Range(availableDice) /\ Range(availableDice) = AllDice \ {userDie}

\* C8 witness: the two parties hold different dice with the same faces.
C8_Witness == Selected /\ userDie # compDie /\ diceSet[userDie] = diceSet[compDie]

\* C9 as stated: with an odd number of dice exactly one die is left
\* unassigned after the selection.
C9_OneLeftWhenOdd ==
    (Selected /\ Len(diceSet) % 2 = 1) => Cardinality(Unassigned) = 1

\* C9 amended: after the selection all dice but two are left unassigned,
\* whatever the parity of the set; exactly one is left when the set has 3.
C9_AllButTwoLeft ==
    Selected => /\ Cardinality(Unassigned) = Len(diceSet) - 2
                /\ Len(diceSet) = 3 => Cardinality(Unassigned) = 1

\* C9 witness: a set of five dice after the selection, three left over.
C9_Witness == Selected /\ Len(diceSet) = 5 /\ Cardinality(Unassigned) = 3

\* C10: at the end exactly one winner is declared: the user if and only if
\* the user's face value is strictly greater than the computer's, the
\* computer in every other case, a tie included; before the end none is.
C10_StrictWinner ==
    /\ pc = "done" =>
         /\ userRoll = DieOf("userRoll")[resultIndex["userRoll"] + 1]
         /\ compRoll = DieOf("compRoll")[resultIndex["compRoll"] + 1]
         /\ "You win!" \in console <=> userRoll > compRoll
         /\ "I win!" \in console <=> userRoll <= compRoll
         /\ Cardinality(console \cap {"You win!", "I win!"}) = 1
    /\ pc # "done" => console \cap {"You win!", "I win!"} = {}

\* C10 witness: both parties rolled the same face value and the computer won.
C10_Witness == pc = "done" /\ userRoll = compRoll /\ "I win!" \in console

\* C11: the turn-order commitment holds a number of [0, 2); the user picks
\* first if and only if the accepted guess equals that number, and then
\* chooses from the whole set while the computer holds no die; otherwise
\* the computer has taken its die before the user is asked.
C11_GuessDecidesOrder ==
    /\ compChoice # NoCommit => compChoice.number \in 0..1
    /\ Accepted("order") =>
         LET match == DigitsValue(userGuess) = compChoice.number
         IN  /\ userFirst <=> match
             /\ pc = "choose" =>
                  IF match
                  THEN compDie = 0 /\ Range(availableDice) = AllDice
                  ELSE compDie \in AllDice /\ Range(availableDice) = AllDice \ {compDie}
             /\ Selected =>
                  Range(availableDice) = AllDice \ {IF match THEN userDie ELSE compDie}

\* C11 witness: guess 1 against the committed number 1, the user is asked to
\* choose from the whole set.
C11_Witness ==
    /\ pc = "choose"
    /\ userGuess = <<"1">>
    /\ compChoice.number = 1
    /\ userFirst
    /\ compDie = 0

\* the places of the trace where a statement stands
Pos(e) == {i \in 1..Len(trace) : trace[i] = e}

\* The phase a statement belongs to: 0 Init, 1 DetermineFirstPlayer,
\* 2 SelectDice, 3 ComputeProbability, 4 RollPhase, 5 Result, 6 Terminated.
PhaseOf(e) ==
    IF e[1] \in {"parseArgs", "new Game", "Error", "Usage"} THEN 0
    ELSE IF e[2] = "order"
            \/ e[1] \in {"Game started", "You chose", "You pick first!", "I pick first."}
         THEN 1
    ELSE IF e[2] = "select" \/ e[1] = "I choose" THEN 2
    ELSE IF e[1] \in {"winProbability", "Win probability"} THEN 3
    ELSE IF e[2] \in RollRounds \/ e[1] = "Time to roll!" THEN 4
    ELSE IF e[1] \in {"Your roll", "You win!", "I win!"} THEN 5
    ELSE 6

\* C14: the statements of a session run through the phases
\* DetermineFirstPlayer, SelectDice, ComputeProbability, RollPhase, Result,
\* Terminated in this order, each phase following the one before it and none
\* entered twice; the win probability is computed once, after both dice are
\* assigned and before the first roll commits, it is that of the two dice
\* held, and the face indices and the winner are functions of the
\* commitments, the answers and the faces alone.
C14_PhasesInOrder ==
    /\ \A i \in 1..(Len(trace) - 1) :
          LET here == PhaseOf(trace[i])
              next == PhaseOf(trace[i + 1])
          IN  next = here \/ next = here + 1
    /\ pc \notin {"entry", "aborted"} => PhaseOf(trace[1]) = 0
    /\ pc = "guess" => PhaseOf(trace[Len(trace)]) = 1
    /\ pc = "choose" => PhaseOf(trace[Len(trace)]) = 2
    /\ pc = "roll" => PhaseOf(trace[Len(trace)]) = 4
    /\ pc = "done" => PhaseOf(trace[Len(trace)]) = 6
    /\ Cardinality(Pos(Ev("winProbability", ""))) = (IF Selected THEN 1 ELSE 0)
    /\ Selected =>
         \A w \in Pos(Ev("winProbability", "")) :
             /\ \E i \in Pos(Ev("userDie", "select")) : i < w
             /\ \E i \in Pos(Ev("compDie", "select")) : i < w
             /\ \A r \in RollRounds : \A i \in Pos(Ev("commit", r)) : w < i
    /\ probability =
         (IF Selected THEN WinProbability(diceSet[userDie], diceSet[compDie])
          ELSE [num |-> 0, den |-> 0])
    /\ \A r \in RollRounds :
          Accepted(r) =>
              resultIndex[r] =
                  (DigitsValue(userNumber[r]) + rollProcess[r].number) % Len(DieOf(r))
    /\ pc = "done" => ("You win!" \in console <=> userRoll > compRoll)

\* C14 witness: a session in which the computer picked first has run to the
\* closing of readline.
C14_Witness ==
    /\ pc = "done"
    /\ ~userFirst
    /\ trace[Len(trace)] = Ev("close", "")
    /\ {PhaseOf(trace[i]) : i \in 1..Len(trace)} = 0..6

\* the steps of one roll sub-protocol, in the order claimed
RollSteps == <<"commit", "digest", "ask", "accept", "combine", "key", "resolve">>

\* C15: the roll phase runs two roll sub-protocols, one on the user's die
\* and one on the computer's, each of them once and in the order commit,
\* digest, question, accepted number, combine, key, face; the commitment of a
\* roll is new and its number lies below the face count of the die rolled;
\* the face rolled is a face of that party's own die.
C15_TwoRollProtocols ==
    /\ \A r \in RollRounds :
         LET P == <<Pos(Ev(RollSteps[1], r)), Pos(Ev(RollSteps[2], r)),
                    Pos(Ev(RollSteps[3], r)), Pos(Ev(RollSteps[4], r)),
                    Pos(Ev(RollSteps[5], r)), Pos(Ev(RollSteps[6], r)),
                    Pos(Ev(RollSteps[7], r))>>
         IN  /\ Len(P) = Len(RollSteps)
             /\ \A j \in 1..Len(P) : Cardinality(P[j]) <= 1
             /\ \A j \in 1..(Len(P) - 1) :
                   \A later \in P[j + 1] : \E sooner \in P[j] : sooner < later
             /\ P[1] # {} <=> rollProcess[r] # NoCommit
             /\ P[2] # {} <=> shown[r].hmac # {}
             /\ P[5] # {} <=> resultIndex[r] # -1
             /\ P[6] # {} <=> shown[r].key # {}
             /\ rollProcess[r] # NoCommit =>
                   /\ rollProcess[r].number \in 0..(Len(DieOf(r)) - 1)
                   /\ \A i \in P[1] : \A w \in Pos(Ev("userDie", "select")) : w < i
             /\ Accepted(r) =>
                   /\ \A j \in 1..Len(P) : P[j] # {}
                   /\ (IF r = "userRoll" THEN userRoll ELSE compRoll) \in Range(DieOf(r))
    /\ Cardinality({i \in 1..Len(trace) : trace[i][1] = "commit" /\ trace[i][2] # "order"})
          = (IF pc = "done" THEN 2 ELSE Cardinality({r \in RollRounds : rollProcess[r] # NoCommit}))
    /\ pc = "done" => Accepted("userRoll") /\ Accepted("compRoll")
    /\ \A i \in Pos(Ev("commit", "compRoll")) : \A k \in Pos(Ev("resolve", "userRoll")) : k < i

\* C15 witness: the user's roll on the die of six faces is resolved and the
\* computer's roll on a die of one face has committed.
C15_Witness ==
    /\ pc = "roll" /\ round = "compRoll"
    /\ Len(DieOf("userRoll")) = 6
    /\ Len(DieOf("compRoll")) = 1
    /\ rollProcess["userRoll"].number = 5
    /\ userRoll \in Range(DieOf("userRoll"))
    /\ Pos(Ev("commit", "compRoll")) # {}

\* the range a round's commitment was generated with
RangeOf(r) == IF r = "order" THEN 2 ELSE Len(DieOf(r))

\* C16: from its creation on, a commitment's digest is the HMAC under its key
\* of the decimal string of its number, the number lies in [0, range), the
\* digest printed at creation is this digest, and no other key and number
\* give the digest; what is printed of the key and the number is the
\* commitment's own.
C16_CommitmentBinds ==
    \A r \in Rounds :
        Commitment(r) # NoCommit =>
            LET c == Commitment(r)
            IN  /\ c.number \in 0..(RangeOf(r) - 1)
                /\ c.key \in Keys
                /\ c.hmac = HMAC(c.key, DecimalString(c.number))
                /\ shown[r].hmac = {c.hmac}
                /\ shown[r].key \subseteq {c.key}
                /\ shown[r].number \subseteq {c.number}
                /\ \A k \in Keys : \A n \in 0..(RangeOf(r) + 10) :
                       HMAC(k, DecimalString(n)) = c.hmac => k = c.key /\ n = c.number

\* C16 witness: the session is over with three commitments, one of them on
\* the last face of the die of six faces.
C16_Witness ==
    /\ pc = "done"
    /\ \A r \in Rounds : Commitment(r) # NoCommit /\ shown[r].key = {Commitment(r).key}
    /\ RangeOf("userRoll") = 6
    /\ rollProcess["userRoll"].number = 5
    /\ compChoice.key # rollProcess["userRoll"].key

\* the rounds whose digest is among the first n statements and whose key is not
OpenAfter(n) ==
    {r \in Rounds : /\ \E i \in 1..n : trace[i] = Ev("digest", r)
                    /\ ~ \E j \in 1..n : trace[j] = Ev("key", r)}

\* C18: at most one commitment has its digest printed and its key not, after
\* every action and between any two statements: no digest is printed and no
\* commitment created while the key of an earlier one is out of print; when
\* the session is over the keys of the three commitments have been printed.
C18_OneOpenCommitment ==
    /\ LET created == [order    |-> Pos(Ev("commit", "order")),
                       userRoll |-> Pos(Ev("commit", "userRoll")),
                       compRoll |-> Pos(Ev("commit", "compRoll"))]
           digest  == [order    |-> Pos(Ev("digest", "order")),
                       userRoll |-> Pos(Ev("digest", "userRoll")),
                       compRoll |-> Pos(Ev("digest", "compRoll"))]
           key     == [order    |-> Pos(Ev("key", "order")),
                       userRoll |-> Pos(Ev("key", "userRoll")),
                       compRoll |-> Pos(Ev("key", "compRoll"))]
       IN  \A r \in Rounds : \A q \in Rounds \ {r} :
              /\ \A i \in digest[r] : \A j \in digest[q] :
                    i < j => \E k \in key[r] : k < j
              /\ \A i \in created[r] : \A j \in created[q] :
                    i < j => \E k \in key[r] : k < j
              /\ \A i \in created[r] : \E j \in digest[r] : i < j
    /\ Cardinality(OpenAfter(Len(trace))) <= 1
    /\ Cardinality({r \in Rounds : shown[r].hmac # {} /\ shown[r].key = {}}) <= 1
    /\ \A r \in RollRounds :
          rollProcess[r] # NoCommit => shown["order"].key = {compChoice.key}
    /\ rollProcess["compRoll"] # NoCommit
          => shown["userRoll"].key = {rollProcess["userRoll"].key}
    /\ pc = "done" =>
          \A r \in Rounds : /\ Commitment(r) # NoCommit
                            /\ shown[r].hmac = {Commitment(r).hmac}
                            /\ shown[r].key = {Commitment(r).key}
                            /\ OpenAfter(Len(trace)) = {}

\* C18 witness: the computer's roll is the one open commitment, the keys of
\* the turn order and of the user's roll are out.
C18_Witness ==
    /\ pc = "roll" /\ round = "compRoll"
    /\ OpenAfter(Len(trace)) = {"compRoll"}
    /\ shown["compRoll"].hmac # {} /\ shown["compRoll"].key = {}
    /\ shown["order"].key # {} /\ shown["userRoll"].key # {}

(***************************************************************************)
(* The session with its scheduling.  The program is one sequential task:   *)
(* a statement that can run does run, so Game.start, once called, is       *)
(* weakly fair.  A question stays open until an answer passes its          *)
(* test; that the peer in the end gives such an answer is the weak         *)
(* fairness of the three accepting steps.  The rejecting steps have none.  *)
(* The sessions are those on the command lines of ArgvPool of at most     *)
(* four arguments of at most three characters.                             *)
(***************************************************************************)
FairArgv == {a \in ArgvPool : Len(a) <= 4 /\ \A i \in DOMAIN a : Len(a[i]) <= 3}

FairInit == Init /\ argv \in FairArgv

FairSpec ==
    /\ FairInit
    /\ [][Next]_vars
    /\ WF_vars(Start)
    /\ WF_vars(GuessAccept)
    /\ WF_vars(ChooseAccept)
    /\ WF_vars(RollAccept)

\* the program waits for an answer
Waiting == pc \in {"guess", "choose", "roll"}

\* C19: a session started on a set of dice the parser accepted ends with a
\* winner declared, given that every question in the end gets an answer
\* that passes its test; and at every question such an answer exists, so
\* that only rejected answers without end can hold the session up.
C19_SessionTerminates ==
    /\ (pc = "start") ~>
          (pc = "done" /\ Cardinality(console \cap {"You win!", "I win!"}) = 1)
    /\ [](Waiting => ENABLED <<GuessAccept \/ ChooseAccept \/ RollAccept>>_vars)
    /\ [](pc \in {"start", "guess", "choose", "roll", "done"} => Len(diceSet) >= 3)

\* C19 witness: a session on four dice is over and the user has won.
C19_Witness ==
    /\ pc = "done"
    /\ Len(diceSet) = 4
    /\ "You win!" \in console
    /\ Pos(Ev("close", "")) # {}

(***************************************************************************)
(* The probability engine by itself: Probability.winProbability applied to *)
(* every pair of dice of a bounded family, and to the dice of the usage    *)
(* line.                                                                   *)
(***************************************************************************)
\* 2,2,4,4,9,9 and 6,8,1,1,8,6 of the usage line
ExampleA == <<2, 2, 4, 4, 9, 9>>

ExampleB == <<6, 8, 1, 1, 8, 6>>

ProbDice == UNION {[1..n -> 0..MaxFace] : n \in 1..MaxFaces} \cup {ExampleA, ExampleB}

ProbInit ==
    /\ argv = <<>>
    /\ pc = "probability"
    /\ error = NoError
    /\ \E a \in ProbDice, b \in ProbDice : diceSet = <<a, b>>
    /\ compChoice = NoCommit
    /\ userGuess = Undefined
    /\ userFirst = FALSE
    /\ choice = Undefined
    /\ availableDice = <<>>
    /\ userDie = 1
    /\ compDie = 2
    /\ probability = [num |-> 0, den |-> 0]
    /\ round = "none"
    /\ rollProcess = [r \in RollRounds |-> NoCommit]
    /\ userNumber = [r \in RollRounds |-> Undefined]
    /\ resultIndex = [r \in RollRounds |-> -1]
    /\ userRoll = -1
    /\ compRoll = -1
    /\ shown = [r \in Rounds |-> NothingShown]
    /\ console = {}
    /\ trace = <<>>

\* const probability = Probability.winProbability(userDie, compDie), and the
\* line that prints it
ComputeProbability ==
    /\ pc = "probability"
    /\ probability' = WinProbability(diceSet[userDie], diceSet[compDie])
    /\ console' = console \cup {"Win probability"}
    /\ trace' = trace \o <<Ev("winProbability", ""), Ev("Win probability", "")>>
    /\ pc' = "reported"
    /\ UNCHANGED <<argv, error, diceSet, compChoice, userGuess, userFirst, choice,
                   availableDice, userDie, compDie, round, rollProcess, userNumber,
                   resultIndex, userRoll, compRoll, shown>>

ProbNext == ComputeProbability

ProbSpec == ProbInit /\ [][ProbNext]_vars

\* the ordered pairs of face positions of two dice
FacePairs(a, b) == (1..Len(a)) \X (1..Len(b))

\* C12: winProbability(A, B) is the number of ordered pairs (u of A, c of B)
\* with u strictly greater than c, over |A| * |B|; for A = 2,2,4,4,9,9 and
\* B = 6,8,1,1,8,6 it is 20 over 36.
C12_WinProbabilityCountsStrictWins ==
    pc = "reported" =>
        LET a == diceSet[userDie]
            b == diceSet[compDie]
        IN  /\ probability.num = Cardinality({q \in FacePairs(a, b) : a[q[1]] > b[q[2]]})
            /\ probability.den = Len(a) * Len(b)
            /\ (a = ExampleA /\ b = ExampleB) => probability = [num |-> 20, den |-> 36]

\* C12 witness: the probability of 2,2,4,4,9,9 against 6,8,1,1,8,6 has been
\* computed.
C12_Witness ==
    /\ pc = "reported"
    /\ diceSet = <<ExampleA, ExampleB>>
    /\ probability = [num |-> 20, den |-> 36]

\* C13: for any two dice the wins of A over B, the wins of B over A and the
\* pairs of equal faces add up to |A| * |B|, so the two win probabilities
\* and the tie probability add up to 1.
C13_WinsAndTiesPartition ==
    pc = "reported" =>
        LET a    == diceSet[userDie]
            b    == diceSet[compDie]
            back == WinProbability(b, a)
            ties == Cardinality({q \in FacePairs(a, b) : a[q[1]] = b[q[2]]})
        IN  /\ probability.den = Len(a) * Len(b)
            /\ back.den = probability.den
            /\ probability.num + back.num + ties = probability.den

\* C13 witness: two dice with wins on both sides and a tie.
C13_Witness ==
    /\ pc = "reported"
    /\ probability.num > 0
    /\ WinProbability(diceSet[compDie], diceSet[userDie]).num > 0
    /\ \E q \in FacePairs(diceSet[userDie], diceSet[compDie]) :
         diceSet[userDie][q[1]] = diceSet[compDie][q[2]]

(***************************************************************************)
(* The combination step by itself: line 151 of Game.fairRoll applied to a  *)
(* die of every face count up to MaxRange, every secret number and every   *)
(* number the loop accepts.                                                *)
(***************************************************************************)
MaxRange == 12

CombineInit ==
    /\ argv = <<>>
    /\ pc = "combine"
    /\ error = NoError
    /\ \E len \in 1..MaxRange : diceSet = <<[i \in 1..len |-> i]>>
    /\ compChoice = NoCommit
    /\ userGuess = Undefined
    /\ userFirst = FALSE
    /\ choice = Undefined
    /\ availableDice = <<>>
    /\ userDie = 1
    /\ compDie = 1
    /\ probability = [num |-> 0, den |-> 0]
    /\ round = "userRoll"
    /\ \E c \in GenerateRandom(Len(diceSet[userDie])) :
           /\ rollProcess = [r \in RollRounds |-> IF r = "userRoll" THEN c ELSE NoCommit]
           /\ shown = [r \in Rounds |-> IF r = "userRoll" THEN PublishAtCommit(c)
                                        ELSE NothingShown]
    /\ userNumber = [r \in RollRounds |-> Undefined]
    /\ resultIndex = [r \in RollRounds |-> -1]
    /\ userRoll = -1
    /\ compRoll = -1
    /\ console = {}
    /\ trace = CommitTrace("userRoll")

\* Game.fairRoll from the number the loop accepts to the face rolled
Combine ==
    /\ pc = "combine"
    /\ \E p \in 0..(MaxRange - 1) :
         LET a     == DecimalString(p)
             die   == DieOf(round)
             idx   == ResultIndex(a, rollProcess[round].number, Len(die))
         IN  /\ RollOk(a, die)
             /\ userNumber' = [userNumber EXCEPT ![round] = a]
             /\ resultIndex' = [resultIndex EXCEPT ![round] = idx]
             /\ shown' = [shown EXCEPT ![round] = RevealRoll(rollProcess[round], @)]
             /\ userRoll' = Roll(die, idx)
    /\ trace' = trace \o RollRevealTrace(round)
    /\ pc' = "combined"
    /\ UNCHANGED <<argv, error, diceSet, compChoice, userGuess, userFirst, choice,
                   availableDice, userDie, compDie, probability, round, rollProcess,
                   compRoll, console>>

CombineNext == Combine

CombineSpec == CombineInit /\ [][CombineNext]_vars

\* the function f, given on the set S, is one-to-one from S onto S
BijectionOn(S, f(_)) ==
    /\ \A x \in S : f(x) \in S
    /\ \A y \in S : Cardinality({x \in S : f(x) = y}) = 1

\* C17: for the range and the secret number of the roll, the peer's number
\* p -> (number + p) mod range is a bijection of [0, range); and for the
\* number the peer gave, so is number -> (number + p) mod range.
C17_CombineIsBijection ==
    pc \in {"combine", "combined"} =>
        LET len    == Len(DieOf(round))
            number == rollProcess[round].number
            ByPeer(p)   == ResultIndex(DecimalString(p), number, len)
            BySecret(n) == ResultIndex(userNumber[round], n, len)
        IN  /\ BijectionOn(0..(len - 1), ByPeer)
            /\ pc = "combined" =>
                  /\ BijectionOn(0..(len - 1), BySecret)
                  /\ resultIndex[round] = ByPeer(ParseInt(userNumber[round]))

\* C17 witness: on a die of at least eleven faces the sum of the two numbers
\* has gone round the range.
C17_Witness ==
    /\ pc = "combined"
    /\ Len(DieOf(round)) >= 11
    /\ userNumber[round] = <<"1", "0">>
    /\ rollProcess[round].number = 7
    /\ resultIndex[round] < 7
====
